---- MODULE Spec2Model ----
(***************************************************************************)
(* Shopping-list server: the in-memory Store (MemStorage), the REST        *)
(* handlers of registerRoutes and the WebSocket broadcast channel.         *)
(*                                                                         *)
(* The host is Node's single-threaded event loop.  A handler runs when an  *)
(* I/O event (a macrotask) arrives; every `await` and every `.then`        *)
(* callback is a job of the microtask queue, and the loop drains that      *)
(* queue before it takes the next I/O event.  The model keeps the          *)
(* microtask queue explicitly: macrotask actions are enabled only when it  *)
(* is empty, microtask actions run its head.                               *)
(***************************************************************************)
EXTENDS Integers, Sequences, FiniteSets, TLC

VARIABLES items, currentId, clients, readyState, inbox, microtasks, req, home

vars == <<items, currentId, clients, readyState, inbox, microtasks, req, home>>

(* ------------------------------ bounds --------------------------------- *)

\* number of WebSocket connections that ever attempt the handshake
NConns == 2
\* number of messages a connection is sent before requests stop arriving
MaxInbox == 3
\* number of successful creates in one run
MaxCreates == 2
\* the same, in the runs that have sockets
FewCreates == 1

Conns == 1..NConns

(* ---------------------------- JSON values ------------------------------ *)

\* A JSON value of a request body: its JavaScript type and its text.
JVal(t, v) == [t |-> t, v |-> v]
Absent == JVal("undefined", "")
Str(s) == JVal("string", s)
Bool(b) == JVal("boolean", IF b THEN "true" ELSE "false")
Num(n) == JVal("number", n)

\* A request body: an object with the three known keys and the unknown key id.
Body(name, category, completed, id) ==
  [name |-> name, category |-> category, completed |-> completed, id |-> id]

\* Bodies a create is tried with: the well-formed ones (the empty name among
\* them) and one body per way of being malformed.
CreateBodies ==
  { Body(n, Str("dairy"), d, Absent) :
      n \in {Str("milk"), Str("")}, d \in {Absent, Bool(TRUE)} }
  \cup { Body(Absent, Str("dairy"), Absent, Absent),
         Body(Num("7"), Str("dairy"), Absent, Absent),
         Body(Str("milk"), Absent, Absent, Absent),
         Body(Str("milk"), Num("7"), Absent, Absent),
         Body(Str("milk"), Str("dairy"), Str("yes"), Absent) }

\* Bodies an update is tried with: the empty object, every single-field
\* partial, a partial with the unknown key id, one body per ill-typed key.
PatchBodies ==
  { Body(Absent, Absent, Absent, Absent),
    Body(Str("milk"), Absent, Absent, Absent),
    Body(Str(""), Absent, Absent, Absent),
    Body(Absent, Str(""), Absent, Absent),
    Body(Absent, Absent, Bool(TRUE), Absent),
    Body(Absent, Absent, Bool(FALSE), Absent),
    Body(Absent, Absent, Bool(TRUE), Num("9")),
    Body(Num("7"), Absent, Absent, Absent),
    Body(Absent, Num("7"), Absent, Absent),
    Body(Absent, Absent, Str("yes"), Absent) }

Bodies == CreateBodies \cup PatchBodies

NoBody == [name |-> Absent, category |-> Absent, completed |-> Absent, id |-> Absent]

\* Path segments :id, as sequences of characters.
IdSegs ==
  { <<"1">>, <<"2">>, <<"9", "9", "9">>, <<"-", "1">>, <<"1", "a">>, <<"a">> }

(* ------------------------------ parseInt ------------------------------- *)

Digits == {"0", "1", "2", "3", "4", "5", "6", "7", "8", "9"}

DigitValue(ch) ==
  CASE ch = "0" -> 0 [] ch = "1" -> 1 [] ch = "2" -> 2 [] ch = "3" -> 3
    [] ch = "4" -> 4 [] ch = "5" -> 5 [] ch = "6" -> 6 [] ch = "7" -> 7
    [] ch = "8" -> 8 [] ch = "9" -> 9

\* length of the longest prefix of s made of digits
RECURSIVE DigitPrefixLen(_)
DigitPrefixLen(s) ==
  IF s = <<>> \/ Head(s) \notin Digits THEN 0 ELSE 1 + DigitPrefixLen(Tail(s))

\* value of the first n characters of s read as a decimal number
RECURSIVE DecimalValue(_, _)
DecimalValue(s, n) ==
  IF n = 0 THEN 0 ELSE 10 * DecimalValue(s, n - 1) + DigitValue(s[n])

NaN == [nan |-> TRUE, val |-> 0]
Number(n) == [nan |-> FALSE, val |-> n]

\* parseInt(string): an optional sign, then the longest run of digits; what
\* follows the digits is ignored; NaN when there is no digit.
parseInt(s) ==
  LET signed == s # <<>> /\ Head(s) \in {"-", "+"}
      rest == IF signed THEN Tail(s) ELSE s
      n == DigitPrefixLen(rest)
      mag == DecimalValue(rest, n)
  IN IF n = 0 THEN NaN
     ELSE Number(IF signed /\ Head(s) = "-" THEN 0 - mag ELSE mag)

isNaN(x) == x.nan

(* ------------------------------ schemas -------------------------------- *)

zString(v) == v.t = "string"
zBoolean(v) == v.t = "boolean"
zOptional(ok, v) == v = Absent \/ ok

\* insertItemSchema: name and category are notNull text columns (required
\* strings), completed is a notNull boolean column with a default (optional
\* boolean).  The parsed data keeps the picked keys only.
insertItemSchema(body) ==
  [success |-> /\ zString(body.name)
               /\ zString(body.category)
               /\ zOptional(zBoolean(body.completed), body.completed),
   data |-> [name |-> body.name, category |-> body.category,
             completed |-> body.completed]]

\* (variant: the schema is strict, an unknown key fails the parse)
updateItemSchemaStrict(body) ==
  [success |-> /\ zOptional(zBoolean(body.completed), body.completed)
               /\ zOptional(zString(body.category), body.category)
               /\ zOptional(zString(body.name), body.name)
               /\ body.id = Absent,
   data |-> [name |-> body.name, category |-> body.category,
             completed |-> body.completed]]

\* updateItemSchema: three optional keys; unknown keys are stripped.
updateItemSchema(body) ==
  [success |-> /\ zOptional(zBoolean(body.completed), body.completed)
               /\ zOptional(zString(body.category), body.category)
               /\ zOptional(zString(body.name), body.name),
   data |-> [name |-> body.name, category |-> body.category,
             completed |-> body.completed]]

(* ------------------------------ MemStorage ----------------------------- *)

\* The Map<number, Item> is kept as the sequence of its values in insertion
\* order, which is the order Map.values() iterates in.
NoItem == [id |-> 0, name |-> "", category |-> "", completed |-> FALSE]

MapHas(m, id) == \E i \in 1..Len(m) : m[i].id = id
MapIndex(m, id) == CHOOSE i \in 1..Len(m) : m[i].id = id
MapGet(m, id) == m[MapIndex(m, id)]
\* (variant: setting a present key deletes and re-inserts it, so it goes last)
MapSetMovesLast(m, id, item) ==
  Append(SelectSeq(m, LAMBDA x : x.id # id), item)

\* Map.set: a present key keeps its position, a new key goes last.
MapSet(m, id, item) ==
  IF MapHas(m, id) THEN [m EXCEPT ![MapIndex(m, id)] = item] ELSE Append(m, item)
MapDelete(m, id) == SelectSeq(m, LAMBDA x : x.id # id)

\* getItems(): Array.from(this.items.values())
getItems == items

\* (variant: the id is taken from the size of the Map)
createItemIdFromSize(insertItem) ==
  [id |-> Len(items) + 1,
   name |-> insertItem.name.v,
   category |-> insertItem.category.v,
   completed |-> IF insertItem.completed = Absent THEN FALSE
                 ELSE insertItem.completed.v = "true"]

\* (variant: a new Item is never completed, whatever the body says)
createItemNeverCompleted(insertItem) ==
  [id |-> currentId,
   name |-> insertItem.name.v,
   category |-> insertItem.category.v,
   completed |-> FALSE]

\* createItem(insertItem): the Item built from the parsed body
createItem(insertItem) ==
  [id |-> currentId,
   name |-> insertItem.name.v,
   category |-> insertItem.category.v,
   completed |-> IF insertItem.completed = Absent THEN FALSE
                 ELSE insertItem.completed.v = "true"]

\* (variant: the merge tests the supplied values for truthiness, so a
\* supplied false or empty string does not overwrite)
updateItemTruthy(id, data) ==
  LET item == MapGet(items, id)
  IN [id |-> item.id,
      name |-> IF data.name # Absent /\ data.name.v # ""
               THEN data.name.v ELSE item.name,
      category |-> IF data.category # Absent /\ data.category.v # ""
                   THEN data.category.v ELSE item.category,
      completed |-> IF data.completed # Absent /\ data.completed.v = "true"
                    THEN TRUE ELSE item.completed]

\* updateItem(id, data): the merged Item
updateItem(id, data) ==
  LET item == MapGet(items, id)
  IN [id |-> item.id,
      name |-> IF data.name # Absent THEN data.name.v ELSE item.name,
      category |-> IF data.category # Absent THEN data.category.v ELSE item.category,
      completed |-> IF data.completed # Absent THEN data.completed.v = "true"
                    ELSE item.completed]

(* --------------------------- requests, jobs ----------------------------- *)

Message(its) == [type |-> "UPDATE", items |-> its]

\* Response bodies
JsonItem(it) == [kind |-> "item", item |-> it, items |-> <<>>, message |-> ""]
JsonItems(its) == [kind |-> "items", item |-> NoItem, items |-> its, message |-> ""]
JsonMessage(m) == [kind |-> "message", item |-> NoItem, items |-> <<>>, message |-> m]
NoContent == [kind |-> "end", item |-> NoItem, items |-> <<>>, message |-> ""]

\* The frame of the request being handled (or of the last one handled):
\* pc is the handler's position, ret / retItem / retItems what the awaited
\* Store call settled with, nres the responses sent.
NoReq ==
  [route |-> "none", seg |-> <<>>, body |-> NoBody, pc |-> "idle",
   ret |-> "", retItem |-> NoItem, retItems |-> <<>>,
   status |-> 0, resBody |-> NoContent, nres |-> 0]

NewReq(route, seg, body) == [NoReq EXCEPT !.route = route, !.seg = seg, !.body = body]

\* res.status(s).json(b) / res.status(s).end()
Respond(r, s, b) ==
  [r EXCEPT !.pc = "done", !.status = s, !.resBody = b, !.nres = r.nres + 1]

\* the handler suspends at `await` on a Store call that settled with ret
Await(r, ret, it, its) ==
  [r EXCEPT !.pc = "awaiting", !.ret = ret, !.retItem = it, !.retItems = its]

ResumeJob == [kind |-> "resume", items |-> <<>>, by |-> "request", conn |-> 0]
\* the callback of storage.getItems().then(...), holding the resolved list
ThenJob(its, by, c) == [kind |-> "then", items |-> its, by |-> by, conn |-> c]

SetAdd(s, c) == IF \E i \in 1..Len(s) : s[i] = c THEN s ELSE Append(s, c)
SetDelete(s, c) == SelectSeq(s, LAMBDA x : x # c)
Tracked == { clients[i] : i \in 1..Len(clients) }

\* What the peer of a connection has been sent while the connection is OPEN:
\* the number of messages and the last of them.  It is discarded with the
\* connection when the socket leaves OPEN.
NoMessage == [type |-> "", items |-> <<>>]
EmptyInbox == [n |-> 0, last |-> NoMessage]
Receive(box, message) == [n |-> box.n + 1, last |-> message]

\* One browser page (the Home component): the state of its query
\* ["/api/items"] (idle until the fetch is on its way, fetching until it
\* resolves), the response body on its way back, the cached list (the page
\* renders [] while there is none), and how many messages of its socket it
\* has handled.  The page's socket is connection Page.
Page == 1
NoHome == [query |-> "idle", wire |-> <<>>, cache |-> <<>>, seen |-> 0]

(* -------------------------------- Init --------------------------------- *)

Init ==
  /\ items = <<>>
  /\ currentId = 1
  /\ clients = <<>>
  /\ readyState = [c \in Conns |-> "CONNECTING"]
  /\ inbox = [c \in Conns |-> EmptyInbox]
  /\ microtasks = <<>>
  /\ req = NoReq
  /\ home = NoHome

Idle == microtasks = <<>>
CanRequest == Idle /\ \A c \in Conns : inbox[c].n < MaxInbox

(* --------------------------- broadcastUpdate --------------------------- *)

\* (variant: the callback is registered twice)
broadcastUpdateTwice(q, by, c) ==
  Append(Append(q, ThenJob(getItems, by, c)), ThenJob(getItems, by, c))

\* (variant: the broadcast of a new connection sends the list as it was when
\* the server started)
broadcastUpdateStaleOnConnect(q, by, c) ==
  Append(q, ThenJob(IF by = "connection" THEN <<>> ELSE getItems, by, c))

\* broadcastUpdate(): storage.getItems() reads the list at the call; its
\* .then callback is queued behind the jobs already in the queue q.
broadcastUpdate(q, by, c) == Append(q, ThenJob(getItems, by, c))

\* One iteration of clients.forEach: send to an open client; a send that
\* throws is caught and the client is deleted from the set.
sendTo(st, c, message, failed) ==
  IF readyState[c] = "OPEN"
  THEN IF c \in failed
       THEN [st EXCEPT !.clients = SetDelete(@, c)]
       ELSE [st EXCEPT !.inbox[c] = Receive(@, message)]
  ELSE st

\* (variant: only the first tracked client is served)
forEachClientFirstOnly(list, st, message, failed) ==
  IF list = <<>> THEN st ELSE sendTo(st, Head(list), message, failed)

\* (variant: the try/catch is around the loop, so the first send that throws
\* ends the loop)
RECURSIVE forEachClientAbortOnThrow(_, _, _, _)
forEachClientAbortOnThrow(list, st, message, failed) ==
  IF list = <<>> THEN st
  ELSE IF readyState[Head(list)] = "OPEN" /\ Head(list) \in failed
  THEN sendTo(st, Head(list), message, failed)
  ELSE forEachClientAbortOnThrow(Tail(list),
                                 sendTo(st, Head(list), message, failed),
                                 message, failed)

\* Array.from(clients).forEach(...) over the copy `list`
RECURSIVE forEachClient(_, _, _, _)
forEachClient(list, st, message, failed) ==
  IF list = <<>> THEN st
  ELSE forEachClient(Tail(list), sendTo(st, Head(list), message, failed),
                     message, failed)

\* (variant: a send that throws is reported on the response of the request)
ThenCallbackReportsFailure ==
  /\ microtasks # <<>>
  /\ Head(microtasks).kind = "then"
  /\ \E failed \in SUBSET { c \in Tracked : readyState[c] = "OPEN" } :
       LET message == Message(Head(microtasks).items)
           st == forEachClient(clients, [clients |-> clients, inbox |-> inbox],
                               message, failed)
       IN /\ clients' = st.clients
          /\ inbox' = st.inbox
          /\ req' = IF failed # {} /\ Head(microtasks).by = "request"
                    THEN [req EXCEPT !.status = 500] ELSE req
  /\ microtasks' = Tail(microtasks)
  /\ UNCHANGED <<items, currentId, readyState, home>>

\* The .then callback of broadcastUpdate: one message, pushed to every
\* tracked client.  `failed` are the clients whose send throws.
ThenCallback ==
  /\ microtasks # <<>>
  /\ Head(microtasks).kind = "then"
  /\ \E failed \in SUBSET { c \in Tracked : readyState[c] = "OPEN" } :
       LET message == Message(Head(microtasks).items)
           st == forEachClient(clients, [clients |-> clients, inbox |-> inbox],
                               message, failed)
       IN /\ clients' = st.clients
          /\ inbox' = st.inbox
  /\ microtasks' = Tail(microtasks)
  /\ UNCHANGED <<items, currentId, readyState, req, home>>

(* ------------------------- WebSocket connections ----------------------- *)

\* (variant: the handler does not call broadcastUpdate)
OnConnectionSilent(c) ==
  /\ Idle
  /\ readyState[c] = "CONNECTING"
  /\ readyState' = [readyState EXCEPT ![c] = "OPEN"]
  /\ clients' = SetAdd(clients, c)
  /\ UNCHANGED <<items, currentId, inbox, req, microtasks, home>>

\* wss.on('connection'): the handshake is done, the socket is OPEN
OnConnection(c) ==
  /\ Idle
  /\ readyState[c] = "CONNECTING"
  /\ readyState' = [readyState EXCEPT ![c] = "OPEN"]
  /\ clients' = SetAdd(clients, c)
  /\ microtasks' = broadcastUpdate(microtasks, "connection", c)
  /\ UNCHANGED <<items, currentId, inbox, req, home>>

\* The closing handshake starts (a close frame arrives): the socket leaves
\* OPEN before any event reaches the handlers.
StartClosing(c) ==
  /\ Idle
  /\ readyState[c] = "OPEN"
  /\ readyState' = [readyState EXCEPT ![c] = "CLOSING"]
  /\ inbox' = [inbox EXCEPT ![c] = EmptyInbox]
  /\ UNCHANGED <<items, currentId, clients, microtasks, req, home>>

\* ws.on('error')
OnError(c) ==
  /\ Idle
  /\ readyState[c] \in {"OPEN", "CLOSING"}
  /\ readyState' = [readyState EXCEPT ![c] = "CLOSING"]
  /\ clients' = SetDelete(clients, c)
  /\ inbox' = [inbox EXCEPT ![c] = EmptyInbox]
  /\ UNCHANGED <<items, currentId, microtasks, req, home>>

\* (variant: the 'close' handler does not delete the client)
OnCloseKeepsClient(c) ==
  /\ Idle
  /\ readyState[c] \in {"OPEN", "CLOSING"}
  /\ readyState' = [readyState EXCEPT ![c] = "CLOSED"]
  /\ inbox' = [inbox EXCEPT ![c] = EmptyInbox]
  /\ UNCHANGED <<items, currentId, clients, microtasks, req, home>>

\* ws.on('close')
OnClose(c) ==
  /\ Idle
  /\ readyState[c] \in {"OPEN", "CLOSING"}
  /\ readyState' = [readyState EXCEPT ![c] = "CLOSED"]
  /\ clients' = SetDelete(clients, c)
  /\ inbox' = [inbox EXCEPT ![c] = EmptyInbox]
  /\ UNCHANGED <<items, currentId, microtasks, req, home>>

(* ------------------------------ REST routes ---------------------------- *)

\* app.get("/api/items"), up to the await
GetItems ==
  /\ CanRequest
  /\ req' = Await(NewReq("GET", <<>>, NoBody), "ok", NoItem, getItems)
  /\ microtasks' = Append(microtasks, ResumeJob)
  /\ UNCHANGED <<items, currentId, clients, readyState, inbox, home>>

\* (variant: the id is allocated before the body is validated)
PostItemAllocatesFirst(body, maxCreates) ==
  LET result == insertItemSchema(body)
      r == NewReq("POST", <<>>, body)
      item == createItem(result.data)
  IN /\ CanRequest
     /\ IF ~result.success
        THEN /\ req' = Respond(r, 400, JsonMessage("Invalid item data"))
             /\ currentId' = currentId + 1
             /\ UNCHANGED <<items, microtasks>>
        ELSE /\ currentId <= maxCreates
             /\ currentId' = currentId + 1
             /\ items' = MapSet(items, item.id, item)
             /\ req' = Await(r, "ok", item, <<>>)
             /\ microtasks' = Append(microtasks, ResumeJob)
     /\ UNCHANGED <<clients, readyState, inbox, home>>

\* (variant: broadcastUpdate() is called before the Store call as well)
PostItemBroadcastsBeforeWrite(body, maxCreates) ==
  LET result == insertItemSchema(body)
      r == NewReq("POST", <<>>, body)
      item == createItem(result.data)
  IN /\ CanRequest
     /\ IF ~result.success
        THEN /\ req' = Respond(r, 400, JsonMessage("Invalid item data"))
             /\ UNCHANGED <<items, currentId, microtasks>>
        ELSE /\ currentId <= maxCreates
             /\ currentId' = currentId + 1
             /\ items' = MapSet(items, item.id, item)
             /\ req' = Await(r, "ok", item, <<>>)
             /\ microtasks' = Append(broadcastUpdate(microtasks, "request", 0),
                                     ResumeJob)
     /\ UNCHANGED <<clients, readyState, inbox, home>>

\* app.post("/api/items"), up to the return or the await
PostItem(body, maxCreates) ==
  LET result == insertItemSchema(body)
      r == NewReq("POST", <<>>, body)
      item == createItem(result.data)
  IN /\ CanRequest
     /\ IF ~result.success
        THEN /\ req' = Respond(r, 400, JsonMessage("Invalid item data"))
             /\ UNCHANGED <<items, currentId, microtasks>>
        ELSE /\ currentId <= maxCreates
             /\ currentId' = currentId + 1
             /\ items' = MapSet(items, item.id, item)
             /\ req' = Await(r, "ok", item, <<>>)
             /\ microtasks' = Append(microtasks, ResumeJob)
     /\ UNCHANGED <<clients, readyState, inbox, home>>

\* app.patch("/api/items/:id"), up to the return or the await
PatchItem(seg, body) ==
  LET id == parseInt(seg)
      result == updateItemSchema(body)
      r == NewReq("PATCH", seg, body)
  IN /\ CanRequest
     /\ IF isNaN(id)
        THEN /\ req' = Respond(r, 400, JsonMessage("Invalid ID"))
             /\ UNCHANGED <<items, microtasks>>
        ELSE IF ~result.success
        THEN /\ req' = Respond(r, 400, JsonMessage("Invalid update data"))
             /\ UNCHANGED <<items, microtasks>>
        ELSE IF ~MapHas(items, id.val)
        THEN /\ req' = Await(r, "Item not found", NoItem, <<>>)
             /\ microtasks' = Append(microtasks, ResumeJob)
             /\ UNCHANGED items
        ELSE /\ items' = MapSet(items, id.val, updateItem(id.val, result.data))
             /\ req' = Await(r, "ok", updateItem(id.val, result.data), <<>>)
             /\ microtasks' = Append(microtasks, ResumeJob)
     /\ UNCHANGED <<currentId, clients, readyState, inbox, home>>

\* app.delete("/api/items/:id"), up to the return or the await
DeleteItem(seg) ==
  LET id == parseInt(seg)
      r == NewReq("DELETE", seg, NoBody)
  IN /\ CanRequest
     /\ IF isNaN(id)
        THEN /\ req' = Respond(r, 400, JsonMessage("Invalid ID"))
             /\ UNCHANGED <<items, microtasks>>
        ELSE IF ~MapHas(items, id.val)
        THEN /\ req' = Await(r, "Item not found", NoItem, <<>>)
             /\ microtasks' = Append(microtasks, ResumeJob)
             /\ UNCHANGED items
        ELSE /\ items' = MapDelete(items, id.val)
             /\ req' = Await(r, "ok", NoItem, <<>>)
             /\ microtasks' = Append(microtasks, ResumeJob)
     /\ UNCHANGED <<currentId, clients, readyState, inbox, home>>

\* (variant: deleteAllItems throws "Item not found" on an empty Map)
DeleteAllItemsRejectsEmpty ==
  /\ CanRequest
  /\ items' = <<>>
  /\ req' = Await(NewReq("DELETE_ALL", <<>>, NoBody),
                  IF items = <<>> THEN "Item not found" ELSE "ok", NoItem, <<>>)
  /\ microtasks' = Append(microtasks, ResumeJob)
  /\ UNCHANGED <<currentId, clients, readyState, inbox, home>>

\* app.delete("/api/items"), up to the await
DeleteAllItems ==
  /\ CanRequest
  /\ items' = <<>>
  /\ req' = Await(NewReq("DELETE_ALL", <<>>, NoBody), "ok", NoItem, <<>>)
  /\ microtasks' = Append(microtasks, ResumeJob)
  /\ UNCHANGED <<currentId, clients, readyState, inbox, home>>

\* (variant: broadcastUpdate() is called in the catch branch too)
BroadcastsOnFailure(r) == r.route # "GET"

\* (variant: an update that supplied no field is not broadcast)
BroadcastsIfSupplied(r) ==
  r.route # "GET" /\ r.ret = "ok" /\ (r.route = "PATCH" => r.body # NoBody)

\* (variant: the GET handler calls broadcastUpdate() too)
BroadcastsOnEveryRoute(r) == r.ret = "ok"

\* What a handler does after its await: the response it sends, and whether
\* it called broadcastUpdate() before sending it.
Broadcasts(r) == r.route # "GET" /\ r.ret = "ok"

FailureMessage(route) ==
  CASE route = "GET" -> "Failed to fetch items"
    [] route = "POST" -> "Failed to create item"
    [] route = "PATCH" -> "Failed to update item"
    [] route = "DELETE" -> "Failed to delete item"
    [] route = "DELETE_ALL" -> "Failed to delete all items"

\* (variant: the catch branch does not recognise "Item not found")
AfterAwaitNoNotFound(r) ==
  IF r.ret = "ok"
  THEN CASE r.route = "GET" -> Respond(r, 200, JsonItems(r.retItems))
         [] r.route \in {"POST", "PATCH"} -> Respond(r, 200, JsonItem(r.retItem))
         [] r.route \in {"DELETE", "DELETE_ALL"} -> Respond(r, 204, NoContent)
  ELSE Respond(r, 500, JsonMessage(FailureMessage(r.route)))

\* (variant: the "Item not found" branch sends its 404 and, for want of a
\* return, falls through to the 500)
AfterAwaitFallsThrough(r) ==
  IF r.ret = "ok"
  THEN CASE r.route = "GET" -> Respond(r, 200, JsonItems(r.retItems))
         [] r.route \in {"POST", "PATCH"} -> Respond(r, 200, JsonItem(r.retItem))
         [] r.route \in {"DELETE", "DELETE_ALL"} -> Respond(r, 204, NoContent)
  ELSE IF r.route \in {"PATCH", "DELETE"} /\ r.ret = "Item not found"
  THEN Respond(Respond(r, 404, JsonMessage("Item not found")),
               500, JsonMessage(FailureMessage(r.route)))
  ELSE Respond(r, 500, JsonMessage(FailureMessage(r.route)))

\* (variant: a delete is answered 200 with a message)
AfterAwaitDeleteAnswers200(r) ==
  IF r.ret = "ok"
  THEN CASE r.route = "GET" -> Respond(r, 200, JsonItems(r.retItems))
         [] r.route \in {"POST", "PATCH"} -> Respond(r, 200, JsonItem(r.retItem))
         [] r.route = "DELETE" -> Respond(r, 200, JsonMessage("deleted"))
         [] r.route = "DELETE_ALL" -> Respond(r, 204, NoContent)
  ELSE IF r.route \in {"PATCH", "DELETE"} /\ r.ret = "Item not found"
  THEN Respond(r, 404, JsonMessage("Item not found"))
  ELSE Respond(r, 500, JsonMessage(FailureMessage(r.route)))

AfterAwait(r) ==
  IF r.ret = "ok"
  THEN CASE r.route = "GET" -> Respond(r, 200, JsonItems(r.retItems))
         [] r.route \in {"POST", "PATCH"} -> Respond(r, 200, JsonItem(r.retItem))
         [] r.route \in {"DELETE", "DELETE_ALL"} -> Respond(r, 204, NoContent)
  ELSE IF r.route \in {"PATCH", "DELETE"} /\ r.ret = "Item not found"
  THEN Respond(r, 404, JsonMessage("Item not found"))
  ELSE Respond(r, 500, JsonMessage(FailureMessage(r.route)))

\* The continuation of a handler after its await
Resume ==
  /\ microtasks # <<>>
  /\ Head(microtasks).kind = "resume"
  /\ req.pc = "awaiting"
  /\ microtasks' = IF Broadcasts(req)
                   THEN broadcastUpdate(Tail(microtasks), "request", 0)
                   ELSE Tail(microtasks)
  /\ req' = AfterAwait(req)
  /\ UNCHANGED <<items, currentId, clients, readyState, inbox, home>>

(* -------------------------------- Next --------------------------------- *)

\* The I/O events of the REST routes, with the inputs they are tried with
Requests(createBodies, patchBodies, segs, maxCreates) ==
  \/ GetItems
  \/ \E body \in createBodies : PostItem(body, maxCreates)
  \/ \E seg \in segs, body \in patchBodies : PatchItem(seg, body)
  \/ \E seg \in segs : DeleteItem(seg)
  \/ DeleteAllItems

\* The I/O events of the WebSocket server
Sockets ==
  \/ \E c \in Conns : OnConnection(c)
  \/ \E c \in Conns : StartClosing(c)
  \/ \E c \in Conns : OnError(c)
  \/ \E c \in Conns : OnClose(c)

\* The jobs of the microtask queue
Jobs == Resume \/ ThenCallback

\* The whole server, sockets included, with a few inputs
FewCreateBodies ==
  { Body(Str("milk"), Str("dairy"), Absent, Absent) }
FewPatchBodies ==
  { Body(Absent, Absent, Bool(TRUE), Absent) }
FewSegs == { <<"1">>, <<"2">>, <<"a">> }

Next == Requests(FewCreateBodies, FewPatchBodies, FewSegs, FewCreates) \/ Sockets \/ Jobs

Spec == Init /\ [][Next]_vars

\* The REST routes and the Store alone (no socket ever connects), with every
\* input
NextStore == Requests(CreateBodies, PatchBodies, IdSegs, MaxCreates) \/ Jobs

SpecStore == Init /\ [][NextStore]_vars

\* The REST routes with well-formed and malformed inputs, and subscribers
\* that connect and close
RejectCreateBodies ==
  { Body(Str("milk"), Str("dairy"), Absent, Absent),
    Body(Str("milk"), Absent, Absent, Absent) }
RejectPatchBodies ==
  { Body(Absent, Absent, Bool(TRUE), Absent),
    Body(Absent, Absent, Str("yes"), Absent) }
RejectSegs == { <<"1">>, <<"a">> }

NextReject ==
  \/ Requests(RejectCreateBodies, RejectPatchBodies, RejectSegs, FewCreates)
  \/ \E c \in Conns : OnConnection(c)
  \/ \E c \in Conns : OnClose(c)
  \/ Jobs

SpecReject == Init /\ [][NextReject]_vars

(* ------------------------------ the page ------------------------------- *)

\* useQuery({queryKey: ["/api/items"]}) on mount: the page's GET reaches the
\* server, which reads the list for the response
QueryFetch ==
  /\ home.query = "idle"
  /\ CanRequest
  /\ req' = Await(NewReq("GET", <<>>, NoBody), "ok", NoItem, getItems)
  /\ microtasks' = Append(microtasks, ResumeJob)
  /\ home' = [home EXCEPT !.query = "fetching", !.wire = getItems]
  /\ UNCHANGED <<items, currentId, clients, readyState, inbox>>

\* The response of the page's GET, once the server has sent it, arrives: the
\* query resolves and its data goes into the cache.
QueryResolves ==
  /\ home.query = "fetching"
  /\ ~(req.route = "GET" /\ req.pc = "awaiting")
  /\ home' = [home EXCEPT !.query = "success", !.cache = home.wire, !.wire = <<>>]
  /\ UNCHANGED <<items, currentId, clients, readyState, inbox, microtasks, req>>

\* socket.onmessage: the messages sent on the page's socket and not yet
\* handled arrive, in order; each UPDATE sets the cache, so the last one stays.
OnMessage ==
  /\ home.seen < inbox[Page].n
  /\ home' = [home EXCEPT
                !.seen = inbox[Page].n,
                !.cache = IF inbox[Page].last.type = "UPDATE"
                          THEN inbox[Page].last.items ELSE @]
  /\ UNCHANGED <<items, currentId, clients, readyState, inbox, microtasks, req>>

\* The server with one page that fetches the list and listens on its socket,
\* other clients' requests and other connections
NextClient ==
  \/ Requests(FewCreateBodies, FewPatchBodies, FewSegs, FewCreates)
  \/ \E c \in Conns : OnConnection(c)
  \/ Jobs
  \/ QueryFetch
  \/ QueryResolves
  \/ OnMessage

SpecClient == Init /\ [][NextClient]_vars

\* SpecReject with the event loop's guarantee that a queued microtask is run
SpecFair == Init /\ [][NextReject]_vars /\ WF_vars(Jobs)

(* ------------------------------ properties ----------------------------- *)

MutationRoutes == {"POST", "PATCH", "DELETE", "DELETE_ALL"}
Succeeded(r) == r.pc = "done" /\ r.status \in {200, 204}

\* the step in which a handler sends its response
Responds == req' # req /\ req'.pc = "done"
\* the step that runs the .then callback of a broadcastUpdate
ThenStep ==
  /\ microtasks # <<>>
  /\ Head(microtasks).kind = "then"
  /\ microtasks' = Tail(microtasks)
\* connection c is sent one message in this step
Got(c) == inbox'[c].n = inbox[c].n + 1
IsOpen(c) == readyState[c] = "OPEN"
ThenJobs(q) == Cardinality({ i \in 1..Len(q) : q[i].kind = "then" })

\* C1: a mutation request that succeeds triggers exactly one broadcast (one
\* .then callback is queued by the step that answers it, and none was queued
\* before); one that is answered 400 or 404 triggers none.
C1_OneBroadcastPerMutation ==
  [][ (Responds /\ req'.route \in MutationRoutes)
        => /\ ThenJobs(microtasks) = 0
           /\ Succeeded(req') => ThenJobs(microtasks') = 1
           /\ req'.status \in {400, 404} => ThenJobs(microtasks') = 0
           /\ req'.status \in {200, 204, 400, 404} ]_vars

C1_Witness ==
  /\ req.route = "DELETE"
  /\ Succeeded(req)
  /\ ThenJobs(microtasks) = 1

\* the handshake of connection c completes in this step
Subscribes(c) == readyState[c] = "CONNECTING" /\ readyState'[c] = "OPEN"

\* a subscribe tracks the connection and triggers exactly one broadcast of
\* the current list
SubscribeBroadcastsOnce ==
  \A c \in Conns :
    Subscribes(c) =>
      /\ c \in { clients'[i] : i \in 1..Len(clients') }
      /\ microtasks' = <<ThenJob(items, "connection", c)>>
      /\ inbox' = inbox

\* C2 (as stated): the broadcast of a subscribe reaches the new connection
\* alone; the connections subscribed before are sent nothing by it.
C2_SnapshotToNewConnectionAlone ==
  [][ /\ SubscribeBroadcastsOnce
      /\ (ThenStep /\ Head(microtasks).by = "connection")
           => \A d \in Conns \ {Head(microtasks).conn} : inbox'[d] = inbox[d] ]_vars

\* C2 (amended): a subscribe tracks the new connection and triggers exactly
\* one broadcast of the current list; its message is sent once to every
\* connection that is tracked and open then, the new one and the ones
\* subscribed before alike (a connection whose send throws is dropped).
C2_SubscribeBroadcastsToAll ==
  [][ /\ SubscribeBroadcastsOnce
      /\ (ThenStep /\ Head(microtasks).by = "connection")
           => /\ \A d \in Tracked :
                   IsOpen(d) => \/ inbox'[d] = Receive(inbox[d],
                                                Message(Head(microtasks).items))
                                \/ d \notin { clients'[i] : i \in 1..Len(clients') }
              /\ \A d \in Conns : inbox'[d] = inbox[d] \/ Got(d) ]_vars

\* connection 1 was sent a second message although no request was ever made:
\* the one of connection 2 subscribing
C2_Witness ==
  /\ req = NoReq
  /\ inbox[1].n = 2
  /\ inbox[2].n = 1

\* C3: once the connection handler and its jobs have run (the loop is idle
\* again), a tracked open subscriber has been sent a message, and the first
\* message it was sent is the UPDATE with the Store's list as it is after
\* all the mutations made before it connected.
C3_LateJoinerSnapshot ==
  \A c \in Conns :
    (Idle /\ IsOpen(c) /\ c \in Tracked)
      => /\ inbox[c].n >= 1
         /\ inbox[c].n = 1 => inbox[c].last = Message(items)

\* a subscriber that connected after a create and an update and holds
\* exactly the one message with the updated item
C3_Witness ==
  \E c \in Conns :
    /\ Idle /\ IsOpen(c) /\ c \in Tracked
    /\ inbox[c].n = 1
    /\ Len(items) = 1 /\ items[1].completed
    /\ inbox[c].last = [type |-> "UPDATE", items |-> items]

\* C4: the callback of one broadcast sends one and the same message, the
\* UPDATE with the list that broadcastUpdate read, to every connection that
\* is tracked and open (a connection whose send throws is dropped instead).
C4_SameSnapshotToAll ==
  [][ ThenStep
        => /\ \A c \in Conns :
                Got(c) => /\ inbox'[c].last.type = "UPDATE"
                          /\ inbox'[c].last.items = Head(microtasks).items
           /\ \A c, d \in Conns :
                (Got(c) /\ Got(d)) => inbox'[c].last = inbox'[d].last
           /\ \A c \in Tracked :
                IsOpen(c) => Got(c) \/ c \notin { clients'[i] : i \in 1..Len(clients') } ]_vars

\* two subscribers hold the same non-empty snapshot, sent by the broadcast
\* of a mutation
C4_Witness ==
  /\ inbox[1].n = 3 /\ inbox[2].n = 2
  /\ inbox[1].last = inbox[2].last
  /\ inbox[1].last.items # <<>>
  /\ Succeeded(req) /\ req.route = "POST"

\* the connections a step drops from the tracked set
Dropped == Tracked \ { clients'[i] : i \in 1..Len(clients') }

\* C5: when a send throws during a broadcast, every other tracked open
\* connection is still sent the message, and the response of the request
\* that triggered the broadcast stays the success response already sent.
C5_PushFailureIsolated ==
  [][ (ThenStep /\ Dropped # {})
        => /\ \A c \in Tracked \ Dropped :
                IsOpen(c) => inbox'[c] = Receive(inbox[c],
                                                 Message(Head(microtasks).items))
           /\ req' = req
           /\ Head(microtasks).by = "request"
                => Succeeded(req) /\ req.nres = 1 ]_vars

\* one subscriber was dropped by a failed send and holds a stale list, the
\* other holds the list of the mutation, which was answered 200
C5_Witness ==
  \E c, d \in Conns :
    /\ IsOpen(c) /\ c \notin Tracked /\ inbox[c].n >= 1
    /\ IsOpen(d) /\ d \in Tracked
    /\ inbox[d].last = Message(items)
    /\ inbox[c].last # inbox[d].last
    /\ Idle /\ Succeeded(req) /\ req.status = 200 /\ req.route = "POST"

(* ------------------------- properties of the Store --------------------- *)

\* the step in which a handler calls the Store and suspends at its await
StoreCall == req.pc # "awaiting" /\ req'.pc = "awaiting"
\* the step in which a create is applied to the Store
CreateStep == StoreCall /\ req'.route = "POST"

\* C6: the allocator starts at 1; a create returns the allocator's value,
\* which is greater than every id in the Store and than every id returned
\* before, and moves it up by one; no other step, delete and delete-all
\* included, changes it; the response carries the allocated id.
C6_IdsStrictlyIncrease ==
  /\ currentId = 1
  /\ [](\A i \in 1..Len(items) : items[i].id < currentId)
  /\ [][ /\ CreateStep => /\ req'.retItem.id = currentId
                          /\ currentId' = currentId + 1
                          /\ items' = Append(items, req'.retItem)
         /\ ~CreateStep => currentId' = currentId
         /\ (Responds /\ req'.route = "POST" /\ Succeeded(req'))
              => req'.resBody.item.id = currentId - 1 ]_vars

\* the second create, made after the first item was deleted, returned id 2
C6_Witness ==
  /\ req.route = "POST" /\ Succeeded(req)
  /\ req.resBody.item.id = 2
  /\ Len(items) = 1 /\ items[1].id = 2

\* The reference model: a function from the ids of the surviving items to
\* their fields.
RefOf(m) ==
  [id \in { m[i].id : i \in 1..Len(m) } |->
     LET it == CHOOSE x \in { m[i] : i \in 1..Len(m) } : x.id = id
     IN [name |-> it.name, category |-> it.category, completed |-> it.completed]]
RefEmpty == [id \in {} |-> NoItem]
RefCreate(f, id, b) ==
  [k \in DOMAIN f \cup {id} |->
     IF k = id
     THEN [name |-> b.name.v, category |-> b.category.v,
           completed |-> b.completed = Bool(TRUE)]
     ELSE f[k]]
RefUpdate(f, id, b) ==
  [k \in DOMAIN f |->
     IF k = id
     THEN [name |-> IF b.name = Absent THEN f[k].name ELSE b.name.v,
           category |-> IF b.category = Absent THEN f[k].category ELSE b.category.v,
           completed |-> IF b.completed = Absent THEN f[k].completed
                         ELSE b.completed = Bool(TRUE)]
     ELSE f[k]]
RefDelete(f, id) == [k \in DOMAIN f \ {id} |-> f[k]]

\* the reference model after the Store call of the request r
RefStep(f, r, id) ==
  IF r.ret # "ok" THEN f
  ELSE CASE r.route = "POST" -> RefCreate(f, id, r.body)
         [] r.route = "PATCH" -> RefUpdate(f, parseInt(r.seg).val, r.body)
         [] r.route = "DELETE" -> RefDelete(f, parseInt(r.seg).val)
         [] r.route = "DELETE_ALL" -> RefEmpty
         [] r.route = "GET" -> f

\* C7: the list is the fold of the operations over the reference model: it
\* starts empty, every Store call changes it as the reference operation
\* does (last write wins, field by field), no two items share an id, and no
\* other step changes it.
C7_ListIsFoldOfOperations ==
  /\ items = <<>>
  /\ [][ /\ StoreCall => RefOf(items') = RefStep(RefOf(items), req', currentId)
         /\ ~StoreCall => items' = items
         /\ Cardinality(DOMAIN RefOf(items')) = Len(items') ]_vars

\* after two creates, updates of the second item and the delete of the
\* first, the list holds the second item with its merged fields
C7_Witness ==
  items = <<[id |-> 2, name |-> "milk", category |-> "", completed |-> FALSE]>>

\* C8: an update or delete-one that reaches the Store with an id the Store
\* does not hold is answered 404, changes neither the items nor the
\* allocator, and queues no broadcast.
C8_NotFoundLeavesStore ==
  [][ /\ ( /\ StoreCall
           /\ req'.route \in {"PATCH", "DELETE"}
           /\ ~MapHas(items, parseInt(req'.seg).val) )
           => /\ req'.ret = "Item not found"
              /\ items' = items /\ currentId' = currentId
              /\ ThenJobs(microtasks') = 0
      /\ ( req.pc = "awaiting" /\ req.ret = "Item not found" /\ req' # req )
           => /\ req'.pc = "done" /\ req'.status = 404 /\ req'.nres = 1
              /\ req'.resBody = JsonMessage("Item not found")
              /\ items' = items /\ currentId' = currentId
              /\ microtasks' = <<>> ]_vars

\* PATCH /api/items/999 {completed: true} on the empty Store of a fresh
\* process was answered 404
C8_Witness ==
  /\ items = <<>> /\ currentId = 1
  /\ req.route = "PATCH" /\ req.seg = <<"9", "9", "9">>
  /\ req.body = Body(Absent, Absent, Bool(TRUE), Absent)
  /\ req.pc = "done" /\ req.status = 404

\* the segment is the decimal numeral of a non-negative integer
IsNonNegativeInteger(seg) ==
  seg # <<>> /\ \A i \in 1..Len(seg) : seg[i] \in Digits

\* C9: a PATCH or DELETE whose id segment is not a non-negative integer is
\* answered 400 and its handler never calls the Store.
C9_BadIdRejected ==
  (req.route \in {"PATCH", "DELETE"} /\ ~IsNonNegativeInteger(req.seg))
    => /\ req.pc = "done"
       /\ req.status = 400
       /\ req.ret = ""

\* the bodies the create must reject
Malformed(b) ==
  \/ b.name.t # "string" \/ b.name.v = ""
  \/ b.category.t # "string"
  \/ (b.completed # Absent /\ b.completed.t # "boolean")

\* C10: a create is answered 400, without reaching the Store, when its name
\* is missing, not text or empty, its category missing or not text, or its
\* completed present and not a boolean; a body with a non-empty text name, a
\* text category and no completed is accepted.
C10_CreateValidation ==
  req.route = "POST"
    => /\ Malformed(req.body) => (req.pc = "done" /\ req.status = 400)
       /\ ~Malformed(req.body) => (req.pc = "awaiting" \/ req.status = 200)

(* ------------------------------ frame effects -------------------------- *)

\* C11: a request answered 400 is answered by the step that received it,
\* before any Store call, and that step leaves the items, the allocator,
\* the tracked set and the job queue as they were.
C11_RejectedRequestChangesNothing ==
  [][ (Responds /\ req'.status = 400)
        => /\ req.pc # "awaiting"
           /\ req'.ret = ""
           /\ items' = items
           /\ currentId' = currentId
           /\ clients' = clients
           /\ microtasks' = microtasks ]_vars

\* a create was rejected while a subscriber is tracked and no id was ever
\* allocated
C11_Witness ==
  /\ req.route = "POST" /\ req.pc = "done" /\ req.status = 400
  /\ currentId = 1
  /\ clients # <<>>

\* the step in which a PATCH arrives
PatchArrives == req.pc # "awaiting" /\ req' # req /\ req'.route = "PATCH"
\* the step in which an update is applied to the Store
UpdateStep == StoreCall /\ req'.route = "PATCH" /\ req'.ret = "ok"
\* the three known keys of a body are each absent or of their type
KnownKeysWellTyped(b) ==
  /\ b.name.t \in {"undefined", "string"}
  /\ b.category.t \in {"undefined", "string"}
  /\ b.completed.t \in {"undefined", "boolean"}

\* C12: an update of an existing item sets each of name, category and
\* completed to the supplied value when the request supplies one (false and
\* the empty string included) and leaves it alone otherwise; the item keeps
\* its id and its place, every other item is untouched; a body whose known
\* keys are well typed is accepted whatever unknown key it carries.
C12_PartialUpdate ==
  [][ /\ UpdateStep =>
           LET b == req'.body
               i == MapIndex(items, parseInt(req'.seg).val)
           IN /\ Len(items') = Len(items)
              /\ \A j \in 1..Len(items) : j # i => items'[j] = items[j]
              /\ items'[i].id = items[i].id
              /\ items'[i].name =
                   IF b.name = Absent THEN items[i].name ELSE b.name.v
              /\ items'[i].category =
                   IF b.category = Absent THEN items[i].category ELSE b.category.v
              /\ items'[i].completed =
                   IF b.completed = Absent THEN items[i].completed
                   ELSE b.completed = Bool(TRUE)
              /\ req'.retItem = items'[i]
      /\ ( /\ PatchArrives
           /\ ~isNaN(parseInt(req'.seg))
           /\ MapHas(items, parseInt(req'.seg).val)
           /\ KnownKeysWellTyped(req'.body) )
           => req'.pc = "awaiting" /\ req'.ret = "ok" ]_vars

\* PATCH /api/items/1 {completed: true, id: 9} was answered 200 with item 1
C12_Witness ==
  /\ req.route = "PATCH" /\ Succeeded(req)
  /\ req.body = Body(Absent, Absent, Bool(TRUE), Num("9"))
  /\ req.resBody.item.id = 1
  /\ req.resBody.item.completed
  /\ MapHas(items, 1) /\ MapGet(items, 1) = req.resBody.item

\* the empty partial object
EmptyPartial == Body(Absent, Absent, Absent, Absent)

\* C13: a PATCH of an existing item with the empty object is applied, leaves
\* the list as it was, is answered 200 with the unchanged item, and queues
\* exactly one broadcast, of that list.
C13_EmptyUpdate ==
  [][ /\ ( /\ PatchArrives /\ req'.body = EmptyPartial
           /\ ~isNaN(parseInt(req'.seg))
           /\ MapHas(items, parseInt(req'.seg).val) )
           => /\ req'.pc = "awaiting" /\ req'.ret = "ok"
              /\ req'.retItem = MapGet(items, parseInt(req'.seg).val)
              /\ items' = items
      /\ ( /\ Responds /\ req.pc = "awaiting" /\ req.ret = "ok"
           /\ req.route = "PATCH" /\ req.body = EmptyPartial )
           => /\ req'.status = 200
              /\ req'.resBody = JsonItem(MapGet(items, parseInt(req.seg).val))
              /\ items' = items
              /\ microtasks' = <<ThenJob(items, "request", 0)>> ]_vars

\* the empty update of item 2 was answered 200 and its broadcast is queued
C13_Witness ==
  /\ req.route = "PATCH" /\ req.body = EmptyPartial /\ req.seg = <<"2">>
  /\ Succeeded(req)
  /\ Len(items) = 2
  /\ ThenJobs(microtasks) = 1

\* C14: a delete-all is applied in whatever state it arrives, empties the
\* list, leaves the allocator alone, is answered 204, and queues exactly one
\* broadcast, whose list is empty.
C14_DeleteAll ==
  [][ /\ (StoreCall /\ req'.route = "DELETE_ALL")
           => /\ req'.ret = "ok"
              /\ items' = <<>>
              /\ currentId' = currentId
      /\ (Responds /\ req'.route = "DELETE_ALL")
           => /\ req'.status = 204 /\ req'.resBody = NoContent /\ req'.nres = 1
              /\ getItems = <<>>
              /\ items' = <<>>
              /\ microtasks' = <<ThenJob(<<>>, "request", 0)>> ]_vars

\* delete-all on the empty Store of a fresh process was answered 204
C14_Witness ==
  /\ req.route = "DELETE_ALL" /\ Succeeded(req) /\ req.status = 204
  /\ currentId = 1
  /\ items = <<>>

\* C15: the response to a successful mutation is sent in the step that queues
\* the broadcast's callback, before any of its pushes: that step pushes
\* nothing and drops nobody, the response depends on the Store's result
\* alone, and the later callback leaves the response as it is whether its
\* sends succeed or throw.
C15_ResponseBeforePushes ==
  [][ /\ (Responds /\ req'.route \in MutationRoutes /\ Succeeded(req'))
           => /\ req' = AfterAwait(req)
              /\ inbox' = inbox /\ clients' = clients
              /\ ThenJobs(microtasks') = 1
              /\ microtasks'[Len(microtasks')].by = "request"
      /\ ThenStep => req' = req ]_vars

\* the create was answered 200 although the push of its broadcast to the one
\* subscriber threw (the subscriber still holds the snapshot of its connection
\* alone and has left the tracked set while OPEN)
C15_Witness ==
  /\ req.route = "POST" /\ Succeeded(req) /\ req.status = 200
  /\ microtasks = <<>>
  /\ Len(items) = 1
  /\ readyState[1] = "OPEN" /\ 1 \notin Tracked
  /\ inbox[1] = Receive(EmptyInbox, Message(<<>>))
  /\ readyState[2] = "CONNECTING"

\* the tracked set after the step
TrackedAfter == { clients'[i] : i \in 1..Len(clients') }

\* C16: a connection only moves forward (CONNECTING, OPEN, then CLOSING or
\* CLOSED, and nothing after CLOSED); its 'close' and its 'error' event remove
\* it from the tracked set; a CLOSED connection is not tracked; a connection
\* enters the tracked set only in the step that opens it, so never again once
\* it has left; and a message is pushed only to a connection that is OPEN and
\* tracked.
C16_ConnectionLifecycle ==
  [][ \A c \in Conns :
        /\ readyState'[c] # readyState[c]
             => <<readyState[c], readyState'[c]>> \in
                  { <<"CONNECTING", "OPEN">>, <<"OPEN", "CLOSING">>,
                    <<"OPEN", "CLOSED">>, <<"CLOSING", "CLOSED">> }
        /\ (OnClose(c) \/ OnError(c)) => c \notin TrackedAfter
        /\ readyState'[c] = "CLOSED" => c \notin TrackedAfter
        /\ (c \in TrackedAfter /\ c \notin Tracked)
             => readyState[c] = "CONNECTING" /\ readyState'[c] = "OPEN"
        /\ Got(c) => readyState[c] = "OPEN" /\ c \in Tracked ]_vars

\* connection 1 has been closed and is no longer tracked, and connection 2,
\* still tracked, has been pushed two snapshots
C16_Witness ==
  /\ readyState[1] = "CLOSED" /\ inbox[1] = EmptyInbox
  /\ readyState[2] = "OPEN"
  /\ Tracked = {2}
  /\ inbox[2].n = 2

\* a request of the route arrives
Arrives(route) == req.pc # "awaiting" /\ req' # req /\ req'.route = route
\* the handler of the route answers after a Store call that succeeded
Answers(route) == Responds /\ req.pc = "awaiting" /\ req.route = route /\ req.ret = "ok"
Milk == [id |-> 1, name |-> "milk", category |-> "dairy", completed |-> FALSE]
MilkCompleted == [Milk EXCEPT !.completed = TRUE]

\* C17: in a fresh process, creating {name: milk, category: dairy} stores and
\* returns item 1 with completed false; with that item alone in the Store,
\* PATCH of 1 with {completed: true} stores and returns it with completed true
\* and the same name and category; then GET returns that item alone, DELETE of
\* 1 is answered 204 and empties the Store, and GET of the empty Store returns
\* the empty list.
C17_Scenario ==
  [][ /\ ( /\ items = <<>> /\ currentId = 1 /\ Arrives("POST")
           /\ req'.body = Body(Str("milk"), Str("dairy"), Absent, Absent) )
           => /\ req'.pc = "awaiting" /\ req'.ret = "ok"
              /\ req'.retItem = Milk
              /\ items' = <<Milk>>
      /\ Answers("POST")
           => req'.status = 200 /\ req'.resBody = JsonItem(req.retItem)
      /\ ( /\ items = <<Milk>> /\ Arrives("PATCH") /\ req'.seg = <<"1">>
           /\ req'.body = Body(Absent, Absent, Bool(TRUE), Absent) )
           => /\ req'.pc = "awaiting" /\ req'.ret = "ok"
              /\ req'.retItem = MilkCompleted
              /\ items' = <<MilkCompleted>>
      /\ Answers("PATCH")
           => req'.status = 200 /\ req'.resBody = JsonItem(req.retItem)
      /\ (items = <<MilkCompleted>> /\ Arrives("GET"))
           => /\ req'.pc = "awaiting" /\ req'.ret = "ok"
              /\ req'.retItems = <<MilkCompleted>>
              /\ items' = items
      /\ Answers("GET")
           => req'.status = 200 /\ req'.resBody = JsonItems(req.retItems)
      /\ (items = <<MilkCompleted>> /\ Arrives("DELETE") /\ req'.seg = <<"1">>)
           => /\ req'.pc = "awaiting" /\ req'.ret = "ok"
              /\ items' = <<>>
      /\ Answers("DELETE")
           => req'.status = 204 /\ req'.resBody = NoContent
      /\ (items = <<>> /\ Arrives("GET"))
           => /\ req'.pc = "awaiting" /\ req'.ret = "ok"
              /\ req'.retItems = <<>> ]_vars

\* after the one create of the process, PATCH of 1 with {completed: true} was
\* answered 200 with the milk item, completed, which is alone in the Store
C17_Witness ==
  /\ req.route = "PATCH" /\ req.seg = <<"1">>
  /\ req.body = Body(Absent, Absent, Bool(TRUE), Absent)
  /\ req.pc = "done" /\ req.status = 200
  /\ req.resBody = JsonItem(MilkCompleted)
  /\ currentId = 2
  /\ items = <<MilkCompleted>>

\* C18: every Item in the Store has a non-empty name.
C18_NamesNonEmpty == \A i \in 1..Len(items) : items[i].name # ""

\* the ids of a list, in its order
IdsOf(m) == [i \in 1..Len(m) |-> m[i].id]
\* the list without its k-th element
Without(m, k) == SubSeq(m, 1, k - 1) \o SubSeq(m, k + 1, Len(m))
\* the step in which a delete of one item is applied to the Store
DeleteStep == StoreCall /\ req'.route = "DELETE" /\ req'.ret = "ok"

\* C19: the Store's list is always in strictly ascending id order; list()
\* returns it as it is; a create appends; an update leaves every id at its
\* position; a delete removes the one item of the given id and leaves the
\* others in their order.
C19_InsertionOrder ==
  /\ [](\A i, j \in 1..Len(items) : i < j => items[i].id < items[j].id)
  /\ [][ /\ (StoreCall /\ req'.route = "GET") => req'.retItems = items
         /\ CreateStep => IdsOf(items') = Append(IdsOf(items), currentId)
         /\ UpdateStep => IdsOf(items') = IdsOf(items)
         /\ DeleteStep =>
              /\ MapHas(items, parseInt(req'.seg).val)
              /\ items' = Without(items, MapIndex(items, parseInt(req'.seg).val)) ]_vars

\* with items 1 and 2 in the Store, the update of item 1 was answered with
\* the item that is still first in the list
C19_Witness ==
  /\ req.route = "PATCH" /\ req.seg = <<"1">> /\ Succeeded(req)
  /\ Len(items) = 2
  /\ items[1] = req.resBody.item
  /\ items[2].id = 2

\* C20: a create that is applied stores, as the last element of the list, an
\* Item with the supplied name and category, with completed false when the
\* body has no completed and the supplied boolean otherwise; that Item is
\* still the last of the list when the response, which carries it, is sent.
C20_CreateStoresSupplied ==
  [][ /\ CreateStep =>
           LET b == req'.body
               it == req'.retItem
           IN /\ b.name.t = "string" /\ it.name = b.name.v
              /\ b.category.t = "string" /\ it.category = b.category.v
              /\ it.completed = IF b.completed = Absent THEN FALSE
                                ELSE b.completed = Bool(TRUE)
              /\ Len(items') = Len(items) + 1
              /\ items'[Len(items')] = it
              /\ SubSeq(items', 1, Len(items)) = items
      /\ Answers("POST")
           => /\ req'.status = 200
              /\ req'.resBody = JsonItem(req.retItem)
              /\ getItems # <<>> /\ getItems[Len(getItems)] = req.retItem ]_vars

\* the second create, with {name: milk, category: dairy, completed: true},
\* was answered with a completed item, the last of the two in the Store
C20_Witness ==
  /\ req.route = "POST" /\ Succeeded(req)
  /\ req.body = Body(Str("milk"), Str("dairy"), Bool(TRUE), Absent)
  /\ req.resBody.item.completed
  /\ Len(items) = 2
  /\ items[2] = req.resBody.item

\* C21: every connection that is OPEN is in the tracked set.
C21_OpenIsTracked == \A c \in Conns : readyState[c] = "OPEN" => c \in Tracked

\* C22: the snapshots pushed to a subscriber arrive in the order of the Store
\* states: a pending broadcast always holds the Store's present list, the
\* Store is not written while a broadcast is pending, the callbacks run first
\* in, first out, and so every snapshot a subscriber is pushed is the Store's
\* list at the moment of the push, never an older one.
C22_SnapshotsInStoreOrder ==
  /\ [](\A i \in 1..Len(microtasks) :
          microtasks[i].kind = "then" => microtasks[i].items = items)
  /\ [][ /\ items' # items => ThenJobs(microtasks) = 0
         /\ ThenStep => microtasks' = Tail(microtasks)
         /\ \A c \in Conns :
              Got(c) => /\ ThenStep
                        /\ inbox'[c].last = Message(Head(microtasks).items)
                        /\ inbox'[c].last.items = items
                        /\ items' = items ]_vars

\* the one subscriber was pushed the empty snapshot of its connection and then
\* the snapshot of the create, which is the Store's list
C22_Witness ==
  /\ readyState[1] = "OPEN" /\ readyState[2] = "CONNECTING"
  /\ inbox[1].n = 2
  /\ Len(items) = 1
  /\ inbox[1].last = Message(items)

\* C23: once no broadcast is pending, the last snapshot an open subscriber
\* has received is the Store's list.
C23_Converged ==
  Idle => \A c \in Conns :
            (readyState[c] = "OPEN" /\ inbox[c].n > 0)
              => inbox[c].last = Message(getItems)

\* the list shows what the Store call of request r did
ShowsEffect(list, r) ==
  CASE r.route = "POST" -> list # <<>> /\ list[Len(list)] = r.retItem
    [] r.route = "PATCH" -> /\ MapHas(list, parseInt(r.seg).val)
                            /\ MapGet(list, parseInt(r.seg).val) = r.retItem
    [] r.route = "DELETE" -> ~MapHas(list, parseInt(r.seg).val)
    [] r.route = "DELETE_ALL" -> list = <<>>
    [] OTHER -> FALSE

\* C24: the list of a broadcast is read in one piece, after the Store write
\* of the mutation that triggers it: the callback queued when a successful
\* mutation is answered holds the Store's whole list, which shows the
\* mutation's effect; when the callback runs, the message of every push is
\* that list, whole, and it is still the Store's list.
C24_SnapshotIsOneStoreState ==
  [][ /\ (Responds /\ req'.route \in MutationRoutes /\ Succeeded(req'))
           => LET job == microtasks'[Len(microtasks')]
              IN /\ job.kind = "then" /\ job.by = "request"
                 /\ job.items = getItems
                 /\ ShowsEffect(job.items, req')
      /\ ThenStep
           => LET job == Head(microtasks)
              IN /\ job.by = "request"
                      => /\ req.route \in MutationRoutes /\ Succeeded(req)
                         /\ ShowsEffect(job.items, req)
                 /\ job.items = getItems
                 /\ \A c \in Conns :
                      Got(c) => inbox'[c].last =
                                  [type |-> "UPDATE", items |-> job.items] ]_vars

\* the subscriber was pushed the snapshot of the update of item 1, in which
\* the item is completed
C24_Witness ==
  /\ req.route = "PATCH" /\ req.seg = <<"1">> /\ Succeeded(req)
  /\ microtasks = <<>>
  /\ readyState[1] = "OPEN" /\ 1 \in Tracked
  /\ inbox[1].n = 3
  /\ inbox[1].last.items = <<req.resBody.item>>
  /\ req.resBody.item.completed

\* C25: once the response of the page's GET has arrived, every message sent
\* on its socket has been handled and no broadcast is pending, the page's
\* cached list is the Store's list (for a page whose socket is open and
\* tracked).
C25_CacheConsistent ==
  ( /\ Idle /\ req.pc # "awaiting"
    /\ home.query = "success"
    /\ readyState[Page] = "OPEN" /\ Page \in Tracked
    /\ home.seen = inbox[Page].n )
    => home.cache = getItems

\* C26: GET /api/items is read-only: whenever it arrives it reads the Store's
\* whole list, and neither its Store call nor its answer, 200 with that list,
\* changes the items, the allocator or the tracked set, pushes anything or
\* queues a broadcast.
C26_GetIsReadOnly ==
  [][ /\ Arrives("GET")
           => /\ req'.pc = "awaiting" /\ req'.ret = "ok"
              /\ req'.retItems = getItems
              /\ microtasks' = <<ResumeJob>>
              /\ UNCHANGED <<items, currentId, clients, inbox>>
      /\ (Responds /\ req.pc = "awaiting" /\ req.route = "GET")
           => /\ req'.status = 200 /\ req'.resBody = JsonItems(getItems)
              /\ microtasks' = <<>>
              /\ UNCHANGED <<items, currentId, clients, inbox>> ]_vars

\* with a subscriber tracked and an item in the Store, a GET was answered
\* with the list and nothing is queued
C26_Witness ==
  /\ req.route = "GET" /\ req.pc = "done" /\ req.status = 200
  /\ req.resBody.items = items
  /\ Len(items) = 1
  /\ Tracked # {}
  /\ microtasks = <<>>

\* the statuses the handler of a route can answer with
StatusesOf(route) ==
  CASE route = "GET" -> {200, 500}
    [] route = "POST" -> {200, 400, 500}
    [] route = "PATCH" -> {200, 400, 404, 500}
    [] route = "DELETE" -> {204, 400, 404, 500}
    [] route = "DELETE_ALL" -> {204, 500}
    [] OTHER -> {}

\* C27: a request is answered exactly once, with a status of its route: it is
\* answered in the step of its arrival or left awaiting its Store call with
\* no response sent; an awaiting request is eventually answered; no request
\* is ever answered twice; the status of an answer is one of its route's.
C27_ExactlyOneResponse ==
  /\ [](req.nres <= 1)
  /\ [](req.pc = "awaiting" => req.nres = 0)
  /\ [](req.pc = "done" => req.nres = 1 /\ req.status \in StatusesOf(req.route))
  /\ [][ req' # req => req'.pc \in {"awaiting", "done"} ]_vars
  /\ (req.pc = "awaiting" ~> req.pc = "done")

\* a DELETE of an absent item was answered 404, once, while one connection is
\* closed and the other open
C27_Witness ==
  /\ req.route = "DELETE" /\ req.pc = "done"
  /\ req.status = 404 /\ req.nres = 1
  /\ readyState[1] = "CLOSED"
  /\ readyState[2] = "OPEN"
====
